---- MODULE Spec2Model ----
(***************************************************************************)
(* House Me Telegram bot (backend/bot/bot.py): the per-user session table  *)
(* user_states, the message and callback dispatch, the free-text search    *)
(* handler and the favorites toggles against the users collection.         *)
(*                                                                         *)
(* Python strings that the code takes apart (callback data, message text)  *)
(* are sequences of one-character strings, so that startswith, replace,    *)
(* split, strip and int are computed the way the code computes them.       *)
(* Python dicts are functions whose domain is the set of keys present.     *)
(***************************************************************************)
EXTENDS Integers, Sequences, FiniteSets, TLC

VARIABLES user_states, users_collection, out, pending, keyboard, fetched, response,
          process, houses

vars == <<user_states, users_collection, out, pending, keyboard, fetched, response,
         process, houses>>

\* what the handlers of the bot leave alone
aside == <<keyboard, fetched, response, process, houses>>

(***************************************************************************)
(* Bounds of the model.                                                    *)
(***************************************************************************)
NProps == 2        \* listing ids "1".."NProps"
MaxFavs == 1       \* longest favorites list in an initial user document
MaxPage == 1       \* page_<n> buttons carry n in 0..MaxPage
MaxListings == 6   \* a listings request returns 0 or MaxListings records
NButtons == 1      \* the first NButtons areas and property types are tapped
MaxPending == 2    \* favorites toggles in flight at the same time
MaxTextLen == 4    \* longest text typed as a price
MaxUpdates == 3    \* webhook POSTs one server process handles
MaxMatches == 40   \* listings a search can match on the server

\* the Telegram user ids that send updates
Users == {1, 2}

(***************************************************************************)
(* Python str / list / dict operations used by the handlers.               *)
(***************************************************************************)
Digits == <<"0", "1", "2", "3", "4", "5", "6", "7", "8", "9">>

DigitSet == {Digits[i] : i \in 1..Len(Digits)}

DigitVal(c) == (CHOOSE i \in 1..Len(Digits) : Digits[i] = c) - 1

RECURSIVE Str(_)
\* str(n) for n >= 0
Str(n) == IF n < 10 THEN <<Digits[n + 1]>>
          ELSE Append(Str(n \div 10), Digits[(n % 10) + 1])

\* s.startswith(p)
StartsWith(s, p) == Len(s) >= Len(p) /\ SubSeq(s, 1, Len(p)) = p

RECURSIVE Replace(_, _)
\* s.replace(old, ''): every non-overlapping occurrence, left to right
Replace(s, old) ==
    IF Len(s) = 0 THEN <<>>
    ELSE IF StartsWith(s, old) THEN Replace(SubSeq(s, Len(old) + 1, Len(s)), old)
    ELSE <<Head(s)>> \o Replace(Tail(s), old)

RECURSIVE LStrip(_)
LStrip(s) == IF Len(s) > 0 /\ Head(s) = " " THEN LStrip(Tail(s)) ELSE s

RECURSIVE RStrip(_)
RStrip(s) == IF Len(s) > 0 /\ s[Len(s)] = " " THEN RStrip(SubSeq(s, 1, Len(s) - 1)) ELSE s

\* s.strip()
Strip(s) == RStrip(LStrip(s))

RECURSIVE Split(_, _)
\* s.split(sep) for a one-character separator
Split(s, sep) ==
    IF \A i \in 1..Len(s) : s[i] # sep THEN <<s>>
    ELSE LET i == CHOOSE j \in 1..Len(s) : s[j] = sep /\ \A k \in 1..(j - 1) : s[k] # sep
         IN  <<SubSeq(s, 1, i - 1)>> \o Split(SubSeq(s, i + 1, Len(s)), sep)

\* x in s, for a character or a list element
In(x, s) == \E i \in 1..Len(s) : s[i] = x

RECURSIVE DigitsValue(_)
DigitsValue(d) == IF Len(d) = 0 THEN 0
                  ELSE 10 * DigitsValue(SubSeq(d, 1, Len(d) - 1)) + DigitVal(d[Len(d)])

\* int(s): surrounding blanks and one sign are accepted; anything else but
\* decimal digits is a ValueError
PyInt(s) ==
    LET t == Strip(s)
        signed == Len(t) > 0 /\ t[1] \in {"+", "-"}
        d == IF signed THEN Tail(t) ELSE t
    IN  IF Len(d) > 0 /\ \A i \in 1..Len(d) : d[i] \in DigitSet
        THEN [ok |-> TRUE, val |-> IF signed /\ t[1] = "-" THEN 0 - DigitsValue(d) ELSE DigitsValue(d)]
        ELSE [ok |-> FALSE, val |-> 0]

RECURSIVE ListRemove(_, _)
\* the list after list.remove(x), x being in the list: the first occurrence goes
ListRemove(s, x) == IF Head(s) = x THEN Tail(s) ELSE <<Head(s)>> \o ListRemove(Tail(s), x)

EmptyDict == [k \in {} |-> 0]

\* d.get(k), None being "None"
Get(d, k) == IF k \in DOMAIN d THEN d[k] ELSE "None"

\* d with d[k] = v
Put(d, k, v) == (k :> v) @@ d

\* d after d.pop(k, None)
Pop(d, k) == [x \in DOMAIN d \ {k} |-> d[x]]

\* the truth value Python gives a .get() result that is None or a str
Truthy(v) == v # "None" /\ v # ""


(***************************************************************************)
(* Literals of the source.                                                 *)
(***************************************************************************)
\* callback_data of the fixed buttons (generate_*_keyboard) and the strings
\* handle_callbacks compares call.data with
D_user_agreement == <<"u", "s", "e", "r", "_", "a", "g", "r", "e", "e", "m", "e", "n", "t">>
D_terms_of_service == <<"t", "e", "r", "m", "s", "_", "o", "f", "_", "s", "e", "r", "v", "i", "c", "e">>
D_help == <<"h", "e", "l", "p">>
D_search_properties == <<"s", "e", "a", "r", "c", "h", "_", "p", "r", "o", "p", "e", "r", "t", "i", "e", "s">>
D_popular_areas == <<"p", "o", "p", "u", "l", "a", "r", "_", "a", "r", "e", "a", "s">>
D_my_favorites == <<"m", "y", "_", "f", "a", "v", "o", "r", "i", "t", "e", "s">>
D_property_alerts == <<"p", "r", "o", "p", "e", "r", "t", "y", "_", "a", "l", "e", "r", "t", "s">>
D_search_location == <<"s", "e", "a", "r", "c", "h", "_", "l", "o", "c", "a", "t", "i", "o", "n">>
D_search_type == <<"s", "e", "a", "r", "c", "h", "_", "t", "y", "p", "e">>
D_search_price == <<"s", "e", "a", "r", "c", "h", "_", "p", "r", "i", "c", "e">>
D_search_text == <<"s", "e", "a", "r", "c", "h", "_", "t", "e", "x", "t">>
D_back_to_search == <<"b", "a", "c", "k", "_", "t", "o", "_", "s", "e", "a", "r", "c", "h">>
D_back_to_menu == <<"b", "a", "c", "k", "_", "t", "o", "_", "m", "e", "n", "u">>

\* the prefixes of the parameterised buttons
P_area == <<"a", "r", "e", "a", "_">>
P_type == <<"t", "y", "p", "e", "_">>
P_prop == <<"p", "r", "o", "p", "_">>
P_fav_add == <<"f", "a", "v", "_", "a", "d", "d", "_">>
P_fav_remove == <<"f", "a", "v", "_", "r", "e", "m", "o", "v", "e", "_">>
P_page == <<"p", "a", "g", "e", "_">>
P_contact == <<"c", "o", "n", "t", "a", "c", "t", "_">>

\* the slash commands of the message handlers
C_start == <<"s", "t", "a", "r", "t">>
C_help == <<"h", "e", "l", "p">>
C_terms == <<"t", "e", "r", "m", "s">>
C_agreement == <<"a", "g", "r", "e", "e", "m", "e", "n", "t">>
C_contact == <<"c", "o", "n", "t", "a", "c", "t">>

\* POPULAR_ABUJA_AREAS[:12], the areas generate_popular_areas_keyboard shows
POPULAR_ABUJA_AREAS ==
    << <<"M", "a", "i", "t", "a", "m", "a">>, <<"A", "s", "o", "k", "o", "r", "o">>, <<"W", "u", "s", "e">>, <<"G", "a", "r", "k", "i">>,
       <<"G", "w", "a", "r", "i", "n", "p", "a">>, <<"J", "a", "b", "i">>, <<"U", "t", "a", "k", "o">>, <<"K", "u", "b", "w", "a">>,
       <<"N", "y", "a", "n", "y", "a">>, <<"L", "u", "g", "b", "e">>, <<"K", "a", "r", "u">>, <<"G", "w", "a", "r", "i", "n", "p", "a">> >>

PROPERTY_TYPES ==
    << <<"d", "u", "p", "l", "e", "x">>, <<"s", "e", "l", "f", "-", "c", "o", "n">>, <<"b", "u", "n", "g", "a", "l", "o", "w">>, <<"a", "p", "a", "r", "t", "m", "e", "n", "t">>,
       <<"m", "a", "n", "s", "i", "o", "n">>, <<"f", "l", "a", "t">>, <<"h", "o", "u", "s", "e">> >>

\* the currency sign that the price parser deletes, as one character
NairaSign == <<"NGN">>

\* what the name `datetime` is bound to once the module is loaded: line 10
\* binds the module, line 11 rebinds the name to the class datetime.datetime
DatetimeName == "class"


(***************************************************************************)
(* A handler body is a list of steps run in order; a step that raises      *)
(* ends the enclosing try body. Calls to the bot platform (reply_to,       *)
(* edit_message_text, edit_message_reply_markup, answer_callback_query)    *)
(* are the steps the environment can make raise: fail is the number of the *)
(* call of the update that raises (0: none; at most one call per update    *)
(* fails). n is the number of records the listings API answers with (0:    *)
(* none, or a failed request).                                             *)
(***************************************************************************)
Send(what) == [op |-> "send", arg |-> what]

Fetch(filters) == [op |-> "fetch_properties", arg |-> filters]

FetchOne(property_id) == [op |-> "fetch_property", arg |-> property_id]

SetState(entry) == [op |-> "set_state", arg |-> entry]

PopWaiting == [op |-> "pop_waiting", arg |-> "waiting_for"]

Raise(exc) == [op |-> "raise", arg |-> exc]

UpdateOne(id, fields, upsert) ==
    [op |-> "update_one", arg |-> [id |-> id, set |-> fields, upsert |-> upsert]]

InsertOne(doc) == [op |-> "insert_one", arg |-> doc]

Try(name, body, handler) ==
    [op |-> "try", arg |-> [name |-> name, body |-> body, handler |-> handler]]

\* datetime.datetime.now() / datetime.datetime.utcnow(): an attribute lookup
\* on whatever `datetime` names; the class has no attribute `datetime`
DatetimeNow == IF DatetimeName = "module" THEN <<>> ELSE <<Raise("AttributeError")>>

SendFails(k, fail) == fail > 0 /\ k = fail

\* fetch_properties as it would be with every filter passed on as given
fetch_properties_sends_all(filters) == filters

\* fetch_properties: the query parameters built from the filters; the
\* optional fields are left out when absent or falsy, limit and skip are
\* passed whenever present
fetch_properties(filters) ==
    LET keep == {k \in DOMAIN filters :
                    \/ k \in {"limit", "skip"}
                    \/ k \in {"minPrice", "maxPrice"} /\ filters[k] # 0
                    \/ k \in {"location", "type", "search"} /\ Len(filters[k]) > 0}
    IN  [k \in keep |-> filters[k]]

\* users_collection.update_one(filter, {"$set": fields}, upsert)
update_one(db, id, fields, upsert) ==
    IF id \in DOMAIN db THEN (id :> (fields @@ db[id])) @@ db
    ELSE IF upsert THEN (id :> (fields @@ ("_id" :> id))) @@ db
    ELSE db

\* clear_waiting as it would be with the marker of every user dropped
clear_waiting_all_users(us, u) == [x \in DOMAIN us |-> Pop(us[x], "waiting_for")]

\* clear_waiting as it would be with the whole entry deleted
clear_waiting_deletes_entry(us, u) == [x \in DOMAIN us \ {u} |-> us[x]]

\* if user_id in user_states: user_states[user_id].pop('waiting_for', None)
clear_waiting(us, u) ==
    IF u \in DOMAIN us THEN (u :> Pop(us[u], "waiting_for")) @@ us ELSE us

RECURSIVE Run(_, _, _)
RECURSIVE Step(_, _, _)
Step(acc, s, fail) ==
    CASE s.op = "send" ->
            IF SendFails(acc.k + 1, fail)
            THEN [acc EXCEPT !.k = @ + 1, !.raised = TRUE]
            ELSE [acc EXCEPT !.k = @ + 1, !.sent = Append(@, s.arg)]
      [] s.op = "fetch_properties" ->
            [acc EXCEPT !.api = Append(@, fetch_properties(s.arg))]
      [] s.op = "fetch_property" ->
            [acc EXCEPT !.looked = Append(@, s.arg)]
      [] s.op = "set_state" ->
            [acc EXCEPT !.us = (acc.user :> s.arg) @@ acc.us]
      [] s.op = "pop_waiting" ->
            [acc EXCEPT !.us = clear_waiting(acc.us, acc.user)]
      [] s.op = "update_one" ->
            [acc EXCEPT !.db = update_one(acc.db, s.arg.id, s.arg.set, s.arg.upsert),
                        !.wrote = TRUE]
      [] s.op = "insert_one" ->
            \* _id is the unique key of the collection: DuplicateKeyError
            IF s.arg["_id"] \in DOMAIN acc.db
            THEN [acc EXCEPT !.raised = TRUE]
            ELSE [acc EXCEPT !.db = (s.arg["_id"] :> s.arg) @@ acc.db, !.wrote = TRUE]
      [] s.op = "raise" ->
            [acc EXCEPT !.raised = TRUE]
      [] s.op = "try" ->
            LET r == Run(acc, s.arg.body, fail)
            IN  IF r.raised
                THEN Run([r EXCEPT !.raised = FALSE, !.caught = Append(@, s.arg.name)],
                         s.arg.handler, fail)
                ELSE r

Run(acc, steps, fail) ==
    IF Len(steps) = 0 \/ acc.raised THEN acc
    ELSE Run(Step(acc, Head(steps), fail), Tail(steps), fail)

RECURSIVE CountSends(_)
\* the calls to the bot platform a step list can make
CountSends(steps) ==
    IF Len(steps) = 0 THEN 0
    ELSE LET s == Head(steps)
         IN  (CASE s.op = "send" -> 1
                [] s.op = "try" -> CountSends(s.arg.body) + CountSends(s.arg.handler)
                [] OTHER -> 0) + CountSends(Tail(steps))

FailPoints(steps) == 0..CountSends(steps)

\* the state an update's handler runs to, from the current state
Handled(u, steps, fail) ==
    Run([user |-> u, us |-> user_states, db |-> users_collection, sent |-> <<>>,
         api |-> <<>>, looked |-> <<>>, wrote |-> FALSE, caught |-> <<>>, k |-> 0,
         raised |-> FALSE], steps, fail)

\* no update is being handled
NoUpdate ==
    [kind |-> "none", user |-> 0, handler |-> "none", branch |-> "none",
     button |-> "none", data |-> <<>>, sent |-> <<>>, api |-> <<>>, looked |-> <<>>,
     wrote |-> FALSE, caught |-> <<>>, escaped |-> FALSE]

\* one update handled: the session table and the store as the handler left
\* them, and a record of what the handler did
Finish(u, kind, handler, branch, button, data, steps, fail) ==
    /\ \E r \in {Handled(u, steps, fail)} :
          /\ user_states' = r.us
          /\ users_collection' = r.db
          /\ out' = [kind |-> kind, user |-> u, handler |-> handler, branch |-> branch,
                     button |-> button, data |-> data, sent |-> r.sent, api |-> r.api,
                     looked |-> r.looked, wrote |-> r.wrote, caught |-> r.caught,
                     escaped |-> r.raised]
    /\ pending' = pending
    /\ UNCHANGED aside

(***************************************************************************)
(* Message dispatch. The handlers are registered in source order; the bot  *)
(* library runs the first registered handler whose filter accepts the      *)
(* message, and only that one.                                             *)
(***************************************************************************)
\* the command a text carries: the first word without its leading "/" and
\* without an "@botname" suffix; "None" for a text that is no command
ExtractCommand(text) ==
    IF StartsWith(text, <<"/">>)
    THEN Tail(Split(Split(text, " ")[1], "@")[1])
    ELSE <<"None">>

\* the registrations with the catch-all text handler registered first
message_handlers_text_first ==
    << [name |-> "handle_text_messages", commands |-> {}, any_text |-> TRUE],
       [name |-> "start", commands |-> {C_start}, any_text |-> FALSE],
       [name |-> "help_command", commands |-> {C_help}, any_text |-> FALSE],
       [name |-> "terms_command", commands |-> {C_terms}, any_text |-> FALSE],
       [name |-> "agreement_command", commands |-> {C_agreement}, any_text |-> FALSE],
       [name |-> "contact_command", commands |-> {C_contact}, any_text |-> FALSE] >>

\* the @bot.message_handler registrations, in the order of the source
message_handlers ==
    << [name |-> "start", commands |-> {C_start}, any_text |-> FALSE],
       [name |-> "help_command", commands |-> {C_help}, any_text |-> FALSE],
       [name |-> "terms_command", commands |-> {C_terms}, any_text |-> FALSE],
       [name |-> "agreement_command", commands |-> {C_agreement}, any_text |-> FALSE],
       [name |-> "contact_command", commands |-> {C_contact}, any_text |-> FALSE],
       [name |-> "handle_text_messages", commands |-> {}, any_text |-> TRUE] >>

Accepts(h, text) == h.any_text \/ ExtractCommand(text) \in h.commands

\* the handlers that run for a text message: the first that accepts it
MessageHandler(text) ==
    LET hits == {i \in 1..Len(message_handlers) : Accepts(message_handlers[i], text)}
    IN  IF hits = {} THEN "none"
        ELSE message_handlers[CHOOSE i \in hits : \A j \in hits : i <= j].name

(***************************************************************************)
(* The command handlers.                                                   *)
(***************************************************************************)
Limit == 20

\* users_collection.find_one({"_id": id}): <<>> for None, <<document>> otherwise
find_one(db, id) == IF id \in DOMAIN db THEN <<db[id]>> ELSE <<>>

\* d.get(k, default)
GetOr(d, k, default) == IF k \in DOMAIN d THEN d[k] ELSE default

\* handle_user_image: the profile photo lookup of a new user
handle_user_image ==
    <<Try("handle_user_image", <<Send("get_user_profile_photos")>>,
          <<Send("send_error_profile_image")>>)>>

\* start: look the user up and insert a record for a new one, then send the
\* welcome text; a failure of the database block is printed and passed over
\* start_body as it would be with the record written by an upsert on every
\* /start
start_body_upserts(u, existing_user) ==
    <<Try("start",
          <<Try("start_database",
                <<UpdateOne(Str(u), ("created_at" :> 1) @@ ("updated_at" :> 2), TRUE)>>, <<>>),
            Send("reply_welcome")>>,
          <<Send("reply_error")>>)>>

\* created_at and updated_at are two clock reads, numbered in the order
\* they are made; user_data has no favorites key
start_body(u, existing_user) ==
    LET user_id == Str(u)
        create == handle_user_image \o DatetimeNow \o DatetimeNow
                  \o <<InsertOne(("_id" :> user_id) @@ ("created_at" :> 1) @@ ("updated_at" :> 2))>>
    IN  <<Try("start",
              <<Try("start_database", IF Len(existing_user) = 0 THEN create ELSE <<>>, <<>>),
                Send("reply_welcome")>>,
              <<Send("reply_error")>>)>>

start(u) == start_body(u, find_one(users_collection, Str(u)))

\* help_command as it would be if it ended the session of the user
help_command_resets_session == <<SetState(EmptyDict), Send("reply_help")>>

help_command == <<Send("reply_help")>>

terms_command == DatetimeNow \o <<Send("reply_terms")>>

agreement_command == DatetimeNow \o <<Send("reply_agreement")>>

contact_command == <<Send("reply_contact")>>

(***************************************************************************)
(* handle_text_messages: the free-text fallback.                           *)
(***************************************************************************)
\* the digits of a price as typed: thousands separators and the currency
\* sign are deleted before int()
PriceInt(s) == PyInt(Replace(Replace(s, <<",">>), NairaSign))

\* the price filters a text stands for; ok is FALSE where int() raises
\* ValueError
ParsePrice(text) ==
    IF In("-", text)
    THEN LET parts == Split(text, "-")
             min_price == PriceInt(Strip(parts[1]))
             max_price == PriceInt(Strip(parts[2]))
         IN  [ok |-> min_price.ok /\ max_price.ok,
              filters |-> ("minPrice" :> min_price.val) @@ ("maxPrice" :> max_price.val)]
    ELSE LET max_price == PriceInt(text)
         IN  [ok |-> max_price.ok, filters |-> ("maxPrice" :> max_price.val)]

\* the reply that shows a search result
Rendered(n, found, none) == IF n > 0 THEN Send(found) ELSE Send(none)

\* LastFilter as it would be without the page
LastFilter_without_page(search_type, filters) == ("search_type" :> search_type) @@ filters

\* the session entry of a finished search: the last filter and page 0
LastFilter(search_type, filters) ==
    ("search_type" :> search_type) @@ filters @@ ("page" :> 0)

\* WaitingFor with a prompt kind as the default of the lookup
WaitingFor_default_location(us, u) ==
    IF u \in DOMAIN us /\ "waiting_for" \in DOMAIN us[u] THEN us[u]["waiting_for"]
    ELSE "location"

\* user_states.get(user_id, {}).get('waiting_for')
WaitingFor(us, u) == IF u \in DOMAIN us THEN Get(us[u], "waiting_for") ELSE "None"

handle_text_messages(u, message_text, n) ==
    LET waiting_for == WaitingFor(user_states, u)
        text == Strip(message_text)
        price == ParsePrice(text)
        search ==
            CASE waiting_for = "location" ->
                    << SetState(LastFilter("location", "location" :> text)),
                       Send("reply_searching"),
                       Fetch(("location" :> text) @@ ("limit" :> Limit)),
                       Rendered(n, "reply_results", "reply_no_properties"),
                       SetState(LastFilter("location", "location" :> text)) >>
              [] waiting_for = "price" ->
                    IF price.ok
                    THEN << SetState(LastFilter("price", price.filters)),
                            Send("reply_searching"),
                            Fetch(price.filters @@ ("limit" :> Limit)),
                            Rendered(n, "reply_results", "reply_no_properties") >>
                    ELSE << Send("reply_invalid_price_format") >>
              [] waiting_for = "text_search" ->
                    << SetState(LastFilter("text", "search" :> text)),
                       Send("reply_searching"),
                       Fetch(("search" :> text) @@ ("limit" :> Limit)),
                       Rendered(n, "reply_results", "reply_no_properties") >>
              [] OTHER -> <<>>
    IN  IF ~Truthy(waiting_for) THEN <<>>
        ELSE <<Try("handle_text_messages", search \o <<PopWaiting>>, <<Send("reply_error")>>)>>


(***************************************************************************)
(* handle_callbacks: one if / elif chain over call.data.                   *)
(***************************************************************************)
PerPage == 5

\* generate_properties_list_keyboard as it would be with the Next button
\* shown whenever the page is full
generate_properties_list_keyboard_full_page(properties, page) ==
    LET start_idx == page * PerPage
        end_idx == IF start_idx + PerPage < Len(properties) THEN start_idx + PerPage
                   ELSE Len(properties)
        shown == SubSeq(properties, start_idx + 1, end_idx)
    IN  [listings |-> [i \in 1..Len(shown) |-> P_prop \o shown[i]],
         previous |-> IF page > 0 THEN <<P_page \o Str(page - 1)>> ELSE <<>>,
         next |-> IF end_idx - start_idx = PerPage THEN <<P_page \o Str(page + 1)>> ELSE <<>>,
         back |-> D_back_to_search]

\* generate_properties_list_keyboard(properties, page), page >= 0: the
\* callback_data of the listing buttons, of the Previous and Next buttons
\* where there are any (<<>>: none) and of the Back button; a listing is
\* given by its id
generate_properties_list_keyboard(properties, page) ==
    LET start_idx == page * PerPage
        end_idx == IF start_idx + PerPage < Len(properties) THEN start_idx + PerPage
                   ELSE Len(properties)
        shown == SubSeq(properties, start_idx + 1, end_idx)
    IN  [listings |-> [i \in 1..Len(shown) |-> P_prop \o shown[i]],
         previous |-> IF page > 0 THEN <<P_page \o Str(page - 1)>> ELSE <<>>,
         next |-> IF end_idx < Len(properties) THEN <<P_page \o Str(page + 1)>> ELSE <<>>,
         back |-> D_back_to_search]

\* no list keyboard has been generated
NoKeyboard ==
    [properties |-> <<>>, page |-> 0,
     markup |-> [listings |-> <<>>, previous |-> <<>>, next |-> <<>>, back |-> <<>>]]

\* the branch of the chain that call.data takes, in the order of the source
CallbackBranch(data) ==
    IF data = D_user_agreement THEN "user_agreement"
    ELSE IF data = D_terms_of_service THEN "terms_of_service"
    ELSE IF data = D_help THEN "help"
    ELSE IF data = D_search_properties THEN "search_properties"
    ELSE IF data = D_popular_areas THEN "popular_areas"
    ELSE IF StartsWith(data, P_area) THEN "area_"
    ELSE IF StartsWith(data, P_type) THEN "type_"
    ELSE IF StartsWith(data, P_prop) THEN "prop_"
    ELSE IF StartsWith(data, P_fav_add) THEN "fav_add_"
    ELSE IF StartsWith(data, P_fav_remove) THEN "fav_remove_"
    ELSE IF data = D_my_favorites THEN "my_favorites"
    ELSE IF data = D_property_alerts THEN "property_alerts"
    ELSE IF data = D_search_location THEN "search_location"
    ELSE IF data = D_search_type THEN "search_type"
    ELSE IF data = D_search_price THEN "search_price"
    ELSE IF data = D_search_text THEN "search_text"
    ELSE IF data = D_back_to_search THEN "back_to_search"
    ELSE IF StartsWith(data, P_page) THEN "page_"
    ELSE IF StartsWith(data, P_contact) THEN "contact_"
    ELSE IF data = D_back_to_menu THEN "back_to_menu"
    ELSE "none"

\* the favorites a fetched user record carries; no record counts as none
FavoritesOf(user) == IF Len(user) = 0 THEN <<>> ELSE GetOr(user[1], "favorites", <<>>)

\* area_<name>: the whole session entry becomes the last filter
area_branch(data, n) ==
    LET area == Replace(data, P_area)
    IN  << SetState(LastFilter("location", "location" :> area)),
           Send("answer_searching"),
           Fetch(("location" :> area) @@ ("limit" :> Limit)),
           Rendered(n, "edit_results", "edit_no_properties") >>

\* type_<name>
type_branch(data, n) ==
    LET prop_type == Replace(data, P_type)
    IN  << SetState(LastFilter("type", "type" :> prop_type)),
           Send("answer_searching"),
           Fetch(("type" :> prop_type) @@ ("limit" :> Limit)),
           Rendered(n, "edit_results", "edit_no_properties") >>

\* prop_<id>: the listing's details with the favorites button
prop_branch(u, data, n) ==
    LET property_id == Replace(data, P_prop)
        favorites == FavoritesOf(find_one(users_collection, Str(u)))
    IN  <<FetchOne(property_id)>>
        \o (IF n > 0
            THEN IF In(property_id, favorites)
                 THEN <<Send("edit_property_remove_button")>>
                 ELSE <<Send("edit_property_add_button")>>
            ELSE <<Send("answer_property_not_found")>>)

\* generate_property_keyboard as it would be with the flag ignored
generate_property_keyboard_always_add(property_id, is_favorite) ==
    << P_fav_add \o property_id, P_contact \o property_id, D_back_to_search >>

\* generate_property_keyboard: the callback_data of the buttons under a
\* listing; the first is the favorites toggle
generate_property_keyboard(property_id, is_favorite) ==
    << IF is_favorite THEN P_fav_remove \o property_id ELSE P_fav_add \o property_id,
       P_contact \o property_id,
       D_back_to_search >>

\* bot.edit_message_reply_markup(reply_markup=keyboard) for the keyboard of
\* a listing
edit_message_reply_markup(reply_markup) ==
    Send(IF StartsWith(reply_markup[1], P_fav_remove) THEN "edit_markup_remove_button"
         ELSE "edit_markup_add_button")

\* the write of fav_add_ as it would be as an unguarded push
fav_add_write_push(user_id, favorites, property_id) ==
    << UpdateOne(user_id, "favorites" :> Append(favorites, property_id), TRUE),
       Send("answer_added") >>

\* the write of fav_add_: append unless present, $set with upsert
fav_add_write(user_id, favorites, property_id) ==
    IF ~In(property_id, favorites)
    THEN DatetimeNow
         \o << UpdateOne(user_id,
                         ("favorites" :> Append(favorites, property_id)) @@ ("updated_at" :> 0),
                         TRUE),
               Send("answer_added") >>
    ELSE <<Send("answer_already_in_favorites")>>

\* fav_add_<id>, from the user record that find_one returned
fav_add_body(u, data, n, user) ==
    LET property_id == Replace(data, P_fav_add)
    IN  <<Try("fav_add",
              fav_add_write(Str(u), FavoritesOf(user), property_id)
              \o <<FetchOne(property_id)>>
              \o (IF n > 0
                  THEN <<edit_message_reply_markup(
                             generate_property_keyboard(property_id, TRUE))>>
                  ELSE <<>>),
              <<Send("answer_error_adding")>>)>>

fav_add_branch(u, data, n) == fav_add_body(u, data, n, find_one(users_collection, Str(u)))

\* the write of fav_remove_ without the membership test: list.remove raises
\* ValueError for an id that is not in the list
fav_remove_write_unguarded(user_id, favorites, property_id) ==
    IF In(property_id, favorites)
    THEN DatetimeNow
         \o << UpdateOne(user_id,
                         ("favorites" :> ListRemove(favorites, property_id)) @@ ("updated_at" :> 0),
                         FALSE),
               Send("answer_removed") >>
    ELSE <<Raise("ValueError")>>

\* the write of fav_remove_: delete if present, $set without upsert
fav_remove_write(user_id, favorites, property_id) ==
    IF In(property_id, favorites)
    THEN DatetimeNow
         \o << UpdateOne(user_id,
                         ("favorites" :> ListRemove(favorites, property_id)) @@ ("updated_at" :> 0),
                         FALSE),
               Send("answer_removed") >>
    ELSE <<>>

\* fav_remove_ as it would be with a missing record read as no favorites,
\* the way fav_add_ reads it
fav_remove_body_absent_as_empty(u, data, n, user) ==
    LET property_id == Replace(data, P_fav_remove)
    IN  <<Try("fav_remove",
              fav_remove_write(Str(u), FavoritesOf(user), property_id)
              \o <<FetchOne(property_id)>>
              \o (IF n > 0
                  THEN <<edit_message_reply_markup(
                             generate_property_keyboard(property_id, FALSE))>>
                  ELSE <<>>),
              <<Send("answer_error_removing")>>)>>

\* fav_remove_<id>, from what find_one returned: .get() is called on it
\* whether or not it is a record
fav_remove_body(u, data, n, user) ==
    LET property_id == Replace(data, P_fav_remove)
    IN  <<Try("fav_remove",
              IF Len(user) = 0 THEN <<Raise("AttributeError")>>
              ELSE fav_remove_write(Str(u), FavoritesOf(user), property_id)
                   \o <<FetchOne(property_id)>>
                   \o (IF n > 0
                  THEN <<edit_message_reply_markup(
                             generate_property_keyboard(property_id, FALSE))>>
                  ELSE <<>>),
              <<Send("answer_error_removing")>>)>>

fav_remove_branch(u, data, n) ==
    fav_remove_body(u, data, n, find_one(users_collection, Str(u)))

\* my_favorites: the first Limit favorites are looked up one by one
my_favorites_branch(u, n) ==
    LET favorites == FavoritesOf(find_one(users_collection, Str(u)))
        shown == SubSeq(favorites, 1, IF Len(favorites) < Limit THEN Len(favorites) ELSE Limit)
    IN  IF Len(favorites) = 0 THEN <<Send("edit_no_favorites")>>
        ELSE [i \in 1..Len(shown) |-> FetchOne(shown[i])]
             \o <<Rendered(n, "edit_favorites", "edit_favorites_unavailable")>>

\* prompt_branch as it would be with the marker added to the existing entry
prompt_branch_keeps_entry(u, kind) ==
    << Send("edit_prompt"),
       SetState(Put(IF u \in DOMAIN user_states THEN user_states[u] ELSE EmptyDict,
                    "waiting_for", kind)) >>

\* search_location / search_price / search_text: the prompt is shown, then
\* the session entry becomes the waiting marker
prompt_branch(u, kind) ==
    << Send("edit_prompt"), SetState("waiting_for" :> kind) >>

\* page_branch as it would be with the page written back to the session
page_branch_stores_page(u, data, n) ==
    LET page == PyInt(Replace(data, P_page))
        user_state == IF u \in DOMAIN user_states THEN user_states[u] ELSE EmptyDict
        filters == [k \in DOMAIN user_state \ {"page", "waiting_for"} |-> user_state[k]]
    IN  IF ~page.ok THEN <<Raise("ValueError")>>
        ELSE << SetState(Put(user_state, "page", page.val)),
                Fetch(("limit" :> Limit) @@ ("skip" :> page.val * PerPage) @@ filters) >>
             \o (IF n > 0 THEN <<Send("edit_results_page")>> ELSE <<>>)

\* page_branch as it would be with the API page size as the step of skip
page_branch_skips_by_limit(u, data, n) ==
    LET page == PyInt(Replace(data, P_page))
        user_state == IF u \in DOMAIN user_states THEN user_states[u] ELSE EmptyDict
        filters == [k \in DOMAIN user_state \ {"page", "waiting_for"} |-> user_state[k]]
    IN  IF ~page.ok THEN <<Raise("ValueError")>>
        ELSE <<Fetch(("limit" :> Limit) @@ ("skip" :> page.val * Limit) @@ filters)>>
             \o (IF n > 0 THEN <<Send("edit_results_page")>> ELSE <<>>)

\* page_<n>: the last filter is sent again with limit and skip
page_branch(u, data, n) ==
    LET page == PyInt(Replace(data, P_page))
        user_state == IF u \in DOMAIN user_states THEN user_states[u] ELSE EmptyDict
        filters == [k \in DOMAIN user_state \ {"page", "waiting_for"} |-> user_state[k]]
    IN  IF ~page.ok THEN <<Raise("ValueError")>>
        ELSE <<Fetch(("limit" :> Limit) @@ ("skip" :> page.val * PerPage) @@ filters)>>
             \o (IF n > 0 THEN <<Send("edit_results_page")>> ELSE <<>>)

\* contact_<id>
contact_branch(data, n) ==
    <<FetchOne(Replace(data, P_contact))>>
    \o (IF n > 0 THEN <<Send("edit_contact")>> ELSE <<>>)

\* the try block around the chain, the closing answer_callback_query and
\* the except clause of handle_callbacks
callback_try(body) ==
    <<Try("handle_callbacks", body \o <<Send("answer")>>, <<Send("answer_error")>>)>>

handle_callbacks(u, data, n) ==
    LET branch == CallbackBranch(data)
        body ==
            CASE branch = "user_agreement" -> DatetimeNow \o <<Send("edit_agreement")>>
              [] branch = "terms_of_service" -> DatetimeNow \o <<Send("edit_terms")>>
              [] branch = "help" -> <<Send("edit_help")>>
              [] branch = "search_properties" -> <<Send("edit_search_menu")>>
              [] branch = "popular_areas" -> <<Send("edit_popular_areas")>>
              [] branch = "area_" -> area_branch(data, n)
              [] branch = "type_" -> type_branch(data, n)
              [] branch = "prop_" -> prop_branch(u, data, n)
              [] branch = "fav_add_" -> fav_add_branch(u, data, n)
              [] branch = "fav_remove_" -> fav_remove_branch(u, data, n)
              [] branch = "my_favorites" -> my_favorites_branch(u, n)
              [] branch = "property_alerts" -> <<Send("edit_alerts")>>
              [] branch = "search_location" -> prompt_branch(u, "location")
              [] branch = "search_type" -> <<Send("edit_property_types")>>
              [] branch = "search_price" -> prompt_branch(u, "price")
              [] branch = "search_text" -> prompt_branch(u, "text_search")
              [] branch = "back_to_search" -> <<Send("edit_search_menu")>>
              [] branch = "page_" -> page_branch(u, data, n)
              [] branch = "contact_" -> contact_branch(data, n)
              [] branch = "back_to_menu" -> <<Send("edit_main_menu")>>
              [] OTHER -> <<>>
    IN  callback_try(body)


(***************************************************************************)
(* The listing lookups, from the answer of the listings API on. A value    *)
(* that the lookups return is a list (of listing ids), None, or a dict (a  *)
(* listing, or the body of the answer).                                    *)
(***************************************************************************)
List(items) == [kind |-> "list", items |-> items]

None == [kind |-> "None", items |-> <<>>]

Dict(items) == [kind |-> "dict", items |-> items]

\* how a block of code ends: with a value, or with an exception
Returned(v) == [raised |-> FALSE, value |-> v]

Raises == [raised |-> TRUE, value |-> None]

\* except_return as it would be without the except clause
except_return_reraises(r, v) == r

\* try: ... except Exception: return v
except_return(r, v) == IF r.raised THEN Returned(v) ELSE r

\* await response.json(): the body as a Python value, or an exception for
\* a body that is no JSON
response_json(body) == IF body.kind = "malformed" THEN Raises ELSE Returned(body)

\* data.get('data', default): an AttributeError for a body that is no
\* object
data_get(body, default) ==
    IF body.kind # "object" THEN Raises
    ELSE Returned(IF body.has_data THEN body.data ELSE default)

\* fetch_properties, from session.get on; a transport error is raised by
\* session.get
fetch_properties_result(resp) ==
    except_return(
        IF resp.error THEN Raises
        ELSE IF resp.status = 200
             THEN IF response_json(resp.body).raised THEN Raises
                  ELSE data_get(resp.body, List(<<>>))
             ELSE Returned(List(<<>>)),
        List(<<>>))

\* fetch_property: data.get('data') or data
fetch_property_result(resp) ==
    except_return(
        IF resp.error THEN Raises
        ELSE IF resp.status = 200
             THEN IF response_json(resp.body).raised THEN Raises
                  ELSE LET d == data_get(resp.body, None)
                       IN  IF d.raised THEN Raises
                           ELSE IF d.value.kind = "None" \/ d.value.items = <<>>
                                THEN Returned(Dict(<<>>))
                                ELSE d
             ELSE Returned(None),
        None)

\* no lookup has been made
NoFetch ==
    [call |-> "none",
     resp |-> [error |-> FALSE, status |-> 0,
               body |-> [kind |-> "malformed", has_data |-> FALSE, data |-> None]],
     result |-> Returned(None)]

(***************************************************************************)
(* The webhook entry points: handler of api/telegram.py, called as a       *)
(* serverless function, and the FastAPI routes of server.py that wrap it.  *)
(***************************************************************************)
Reply(statusCode, body) == [statusCode |-> statusCode, body |-> body]

\* asyncio.run(coro): RuntimeError when an event loop is already running
\* in the calling thread
asyncio_run(loop_running, r) == IF loop_running THEN Raises ELSE r

\* update_dict.get('update_id'): an AttributeError for a JSON value that
\* is no object
update_dict_get(json) == IF json = "object" THEN Returned(None) ELSE Raises

\* process_update of api/telegram.py: True when the update has been
\* processed, False when the bot is not loaded or anything raised;
\* completes says whether de_json and process_new_updates return
process_update(json, bot_loaded, completes) ==
    LET r == IF update_dict_get(json).raised THEN Raises
             ELSE IF ~bot_loaded THEN Returned(FALSE)
             ELSE IF completes THEN Returned(TRUE)
             ELSE Raises
    IN  IF r.raised THEN FALSE ELSE r.value

\* handler(request) of api/telegram.py; the body of a request is a str or
\* a parsed value, and json says what it holds
handler(method, form, json, loop_running, bot_loaded, completes) ==
    IF method = "GET" THEN Reply(200, "html")
    ELSE IF method = "POST"
    THEN IF ~bot_loaded THEN Reply(500, "Bot not initialized")
         ELSE IF form = "str" /\ json = "malformed" THEN Reply(400, "Invalid JSON")
         ELSE IF form = "str" /\ update_dict_get(json).raised THEN Reply(500, "Error")
         ELSE IF asyncio_run(loop_running, Returned(None)).raised THEN Reply(500, "Error")
         ELSE IF process_update(json, bot_loaded, completes) THEN Reply(200, "OK")
         ELSE Reply(500, "Error processing update")
    ELSE Reply(405, "Method not allowed")

\* the routes of server.py for /api/telegram: status (GET) and webhook
\* (POST), both coroutines run by the event loop of the server; any other
\* method is refused by the framework
api_telegram(method, json, bot_loaded, completes) ==
    IF method = "GET"
    THEN Reply(handler("GET", "str", "object", TRUE, bot_loaded, completes).statusCode, "html")
    ELSE IF method = "POST"
    THEN IF json = "malformed" THEN Reply(400, "Invalid JSON")
         ELSE IF update_dict_get(json).raised THEN Reply(500, "Internal error")
         ELSE handler("POST", "dict", json, TRUE, bot_loaded, completes)
    ELSE Reply(405, "Method not allowed")

\* no request has been made
NoRequest ==
    [entry |-> "none", method |-> "none", form |-> "str", json |-> "malformed",
     bot_loaded |-> FALSE, completes |-> FALSE, reply |-> Reply(0, "none")]

(***************************************************************************)
(* One server process: the import of bot.py, the lazy initialisation of    *)
(* the database connection and of the command list, and the hand-over of   *)
(* an update to the dispatcher, for each of the three deployments:         *)
(* class handler of bot.py, handler of api/telegram.py called as a         *)
(* serverless function, and the FastAPI server of server.py.               *)
(* connected says that users_collection is not None; initialized that      *)
(* init_db has returned True; registered that set_my_commands has          *)
(* returned.                                                               *)
(***************************************************************************)
\* what one POST did
NoPost ==
    [init_db |-> 0, set_my_commands |-> 0, dispatched |-> FALSE, connected |-> FALSE,
     kind |-> "none", statusCode |-> 0]

NoProcess ==
    [adapter |-> "none", BOT_TOKEN |-> FALSE, MONGO_URI |-> FALSE, loaded |-> FALSE,
     connected |-> FALSE, initialized |-> FALSE, registered |-> FALSE,
     updates |-> 0, post |-> NoPost]

\* the module level of bot.py as it would be without the MONGO_URI check
import_bot_token_only(BOT_TOKEN, MONGO_URI) ==
    IF ~BOT_TOKEN THEN Raises ELSE Returned(None)

\* the module level of bot.py: a ValueError when BOT_TOKEN or MONGO_URI is
\* not in the environment
import_bot(BOT_TOKEN, MONGO_URI) ==
    IF ~BOT_TOKEN THEN Raises
    ELSE IF ~MONGO_URI THEN Raises
    ELSE Returned(None)

\* init_db: db says whether the database answers the ping ("down" when it
\* does not) and whether the indexes can be created ("no index" when they
\* cannot); users_collection is assigned between the two
init_db(p, db) ==
    [process |-> [p EXCEPT !.connected = IF db = "down" THEN @ ELSE TRUE,
                           !.initialized = @ \/ db = "up",
                           !.post.init_db = @ + 1],
     value |-> db = "up"]

\* handler.init_handler of bot.py
init_handler(p, db) ==
    IF ~p.connected THEN init_db(p, db) ELSE [process |-> p, value |-> TRUE]

\* await bot.set_my_commands(commands), which may raise
set_my_commands(p, commands_ok) ==
    [process |-> [p EXCEPT !.registered = @ \/ commands_ok,
                           !.post.set_my_commands = @ + 1],
     raised |-> ~commands_ok]

\* bot.process_new_updates([update]): the handler of the update runs, with
\* users_collection as it is; start initialises the database itself when
\* users_collection is None
process_new_updates(p, db, kind) ==
    LET q == [p EXCEPT !.post.dispatched = TRUE, !.post.connected = p.connected,
                       !.post.kind = kind]
    IN  IF kind = "start" /\ ~q.connected THEN init_db(q, db).process ELSE q

\* handler.process_update of bot.py; de_json says whether Update.de_json
\* returns
handler_process_update(p, db, kind, de_json) ==
    LET i == init_handler(p, db)
    IN  IF ~i.value THEN [process |-> i.process, raised |-> TRUE]
        ELSE IF ~de_json THEN [process |-> i.process, raised |-> TRUE]
        ELSE [process |-> process_new_updates(i.process, db, kind), raised |-> FALSE]

\* handler.do_POST of bot.py
do_POST(p, db, kind, de_json) ==
    LET r == handler_process_update([p EXCEPT !.post = NoPost], db, kind, de_json)
    IN  [r.process EXCEPT !.updates = @ + 1,
                          !.post.statusCode = IF r.raised THEN 500 ELSE 200]

\* process_update of api/telegram.py with its effects on the process
telegram_process_update(p, db, commands_ok, kind, de_json) ==
    IF ~p.loaded THEN [process |-> p, value |-> FALSE]
    ELSE LET a == IF ~p.connected THEN init_db(p, db).process ELSE p
             b == set_my_commands(a, commands_ok).process
         IN  IF ~de_json THEN [process |-> b, value |-> FALSE]
             ELSE [process |-> process_new_updates(b, db, kind), value |-> TRUE]

\* handler(request) of api/telegram.py for a POST with a JSON object
telegram_POST(p, loop_running, db, commands_ok, kind, de_json) ==
    LET q == [p EXCEPT !.post = NoPost]
        ran == p.loaded /\ ~asyncio_run(loop_running, Returned(None)).raised
        r == IF ran THEN telegram_process_update(q, db, commands_ok, kind, de_json).process
             ELSE q
    IN  [r EXCEPT !.updates = @ + 1,
                  !.post.statusCode =
                      handler("POST", "dict", "object", loop_running, p.loaded, de_json).statusCode]

\* startup_event of server.py: the command list is registered when the bot
\* module has loaded
startup_event(p, commands_ok) ==
    IF p.loaded THEN [set_my_commands(p, commands_ok).process EXCEPT !.post = NoPost] ELSE p

(***************************************************************************)
(* The updates the bot receives.                                           *)
(***************************************************************************)
PropertyIds == {Str(i) : i \in 1..NProps}

\* the callback_data of the buttons the keyboards carry, each with the kind
\* of button it was generated as
Buttons ==
    {[button |-> "user_agreement", data |-> D_user_agreement],
     [button |-> "terms_of_service", data |-> D_terms_of_service],
     [button |-> "help", data |-> D_help],
     [button |-> "search_properties", data |-> D_search_properties],
     [button |-> "popular_areas", data |-> D_popular_areas],
     [button |-> "my_favorites", data |-> D_my_favorites],
     [button |-> "property_alerts", data |-> D_property_alerts],
     [button |-> "search_location", data |-> D_search_location],
     [button |-> "search_type", data |-> D_search_type],
     [button |-> "search_price", data |-> D_search_price],
     [button |-> "search_text", data |-> D_search_text],
     [button |-> "back_to_search", data |-> D_back_to_search],
     [button |-> "back_to_menu", data |-> D_back_to_menu]}
    \cup {[button |-> "area_", data |-> P_area \o POPULAR_ABUJA_AREAS[i]] : i \in 1..NButtons}
    \cup {[button |-> "type_", data |-> P_type \o PROPERTY_TYPES[i]] : i \in 1..NButtons}
    \cup {[button |-> "prop_", data |-> P_prop \o id] : id \in PropertyIds}
    \cup {[button |-> "fav_add_", data |-> P_fav_add \o id] : id \in PropertyIds}
    \cup {[button |-> "fav_remove_", data |-> P_fav_remove \o id] : id \in PropertyIds}
    \cup {[button |-> "contact_", data |-> P_contact \o id] : id \in PropertyIds}
    \cup {[button |-> "page_", data |-> P_page \o Str(p)] : p \in 0..MaxPage}

\* free texts a user types: an area, a price range, a range with a side
\* that is no number
Texts == { <<"W", "u", "s", "e">>, <<" ", "5", "-", "9">>, <<"5", "-", "x">> }

Commands == { <<"/">> \o C_start, <<"/">> \o C_help, <<"/">> \o C_terms,
              <<"/">> \o C_agreement, <<"/">> \o C_contact }

Messages == Texts \cup Commands

ListingCounts == {0, MaxListings}

(***************************************************************************)
(* The user store when the process starts: user 1 has no record, or one    *)
(* with a duplicate-free favorites list or (as /start writes it) none; the *)
(* other users have no record yet.                                         *)
(***************************************************************************)
RECURSIVE NoDuplicates(_)
NoDuplicates(s) == Len(s) = 0 \/ (~In(Head(s), Tail(s)) /\ NoDuplicates(Tail(s)))

FavoriteLists ==
    {f \in UNION {[1..k -> PropertyIds] : k \in 0..MaxFavs} : NoDuplicates(f)}

Documents(id) ==
    {("_id" :> id)} \cup {("_id" :> id) @@ ("favorites" :> f) : f \in FavoriteLists}

Stores == {EmptyDict} \cup {Str(1) :> d : d \in Documents(Str(1))}

Init ==
    /\ user_states = EmptyDict
    /\ users_collection \in Stores
    /\ out = NoUpdate
    /\ pending = <<>>
    /\ keyboard = NoKeyboard
    /\ fetched = NoFetch
    /\ response = NoRequest
    /\ process = NoProcess
    /\ houses = <<>>

(***************************************************************************)
(* One action per handler: the update is dispatched, the handler runs to   *)
(* its end.                                                                *)
(***************************************************************************)
Start ==
    /\ out = NoUpdate
    /\ \E u \in Users, text \in Messages :
        /\ MessageHandler(text) = "start"
        /\ \E steps \in {start(u)} : \E fail \in FailPoints(steps) :
              Finish(u, "message", "start", "none", "none", text, steps, fail)

HelpCommand ==
    /\ out = NoUpdate
    /\ \E u \in Users, text \in Messages :
        /\ MessageHandler(text) = "help_command"
        /\ \E steps \in {help_command} : \E fail \in FailPoints(steps) :
              Finish(u, "message", "help_command", "none", "none", text, steps, fail)

TermsCommand ==
    /\ out = NoUpdate
    /\ \E u \in Users, text \in Messages :
        /\ MessageHandler(text) = "terms_command"
        /\ \E steps \in {terms_command} : \E fail \in FailPoints(steps) :
              Finish(u, "message", "terms_command", "none", "none", text, steps, fail)

AgreementCommand ==
    /\ out = NoUpdate
    /\ \E u \in Users, text \in Messages :
        /\ MessageHandler(text) = "agreement_command"
        /\ \E steps \in {agreement_command} : \E fail \in FailPoints(steps) :
              Finish(u, "message", "agreement_command", "none", "none", text, steps, fail)

ContactCommand ==
    /\ out = NoUpdate
    /\ \E u \in Users, text \in Messages :
        /\ MessageHandler(text) = "contact_command"
        /\ \E steps \in {contact_command} : \E fail \in FailPoints(steps) :
              Finish(u, "message", "contact_command", "none", "none", text, steps, fail)

HandleTextMessages ==
    /\ out = NoUpdate
    /\ \E u \in Users, text \in Messages, n \in ListingCounts :
        /\ MessageHandler(text) = "handle_text_messages"
        /\ \E steps \in {handle_text_messages(u, text, n)} : \E fail \in FailPoints(steps) :
              Finish(u, "message", "handle_text_messages", "none", "none", text, steps, fail)

HandleCallbacks ==
    /\ out = NoUpdate
    /\ \E u \in Users, b \in Buttons, n \in ListingCounts :
        \E steps \in {handle_callbacks(u, b.data, n)} : \E fail \in FailPoints(steps) :
            Finish(u, "callback", "handle_callbacks", CallbackBranch(b.data), b.button,
                   b.data, steps, fail)

\* the webhook call returns; the next update can be taken
Respond ==
    /\ out # NoUpdate
    /\ out' = NoUpdate
    /\ UNCHANGED <<user_states, users_collection, pending, aside>>

Next ==
    \/ Start
    \/ HelpCommand
    \/ TermsCommand
    \/ AgreementCommand
    \/ ContactCommand
    \/ HandleTextMessages
    \/ HandleCallbacks
    \/ Respond

Spec == Init /\ [][Next]_vars


(***************************************************************************)
(* Favorites toggles that overlap. A toggle awaits find_one and later      *)
(* update_one; another update's handler can run in between. ToggleRead is  *)
(* a toggle up to the record that find_one returned, ToggleWrite the rest  *)
(* of it, run against the store as it is by then. out describes the       *)
(* toggle that finished last, until its webhook call returns.              *)
(***************************************************************************)
ToggleButtons == {b \in Buttons : b.button \in {"fav_add_", "fav_remove_"}}

ToggleRead ==
    /\ out = NoUpdate
    /\ Len(pending) < MaxPending
    /\ \E u \in Users, b \in ToggleButtons :
          pending' = Append(pending, [user |-> u, button |-> b.button, data |-> b.data,
                                      read |-> find_one(users_collection, Str(u))])
    /\ UNCHANGED <<user_states, users_collection, out, aside>>

ToggleWrite ==
    /\ out = NoUpdate
    /\ UNCHANGED aside
    /\ \E i \in 1..Len(pending), n \in ListingCounts :
        LET p == pending[i]
            body == IF p.button = "fav_add_"
                    THEN fav_add_body(p.user, p.data, n, p.read)
                    ELSE fav_remove_body(p.user, p.data, n, p.read)
        IN  /\ p.button \in {"fav_add_", "fav_remove_"}
            /\ \E steps \in {callback_try(body)} : \E fail \in FailPoints(steps) :
              \E r \in {Handled(p.user, steps, fail)} :
                /\ user_states' = r.us
                /\ users_collection' = r.db
                /\ out' = [kind |-> "callback", user |-> p.user,
                           handler |-> "handle_callbacks",
                           branch |-> CallbackBranch(p.data), button |-> p.button,
                           data |-> p.data, sent |-> r.sent, api |-> r.api,
                           looked |-> r.looked, wrote |-> r.wrote, caught |-> r.caught,
                           escaped |-> r.raised]
                /\ pending' = [j \in 1..(Len(pending) - 1) |->
                                  IF j < i THEN pending[j] ELSE pending[j + 1]]

NextToggles == ToggleRead \/ ToggleWrite \/ Respond

SpecToggles == Init /\ [][NextToggles]_vars

(***************************************************************************)
(* /start commands that overlap each other and the toggles: start awaits   *)
(* find_one, and insert_one only after the profile photo lookup. StartRead *)
(* is a /start up to the record that find_one returned, StartWrite the     *)
(* rest of it.                                                             *)
(***************************************************************************)
StartRead ==
    /\ out = NoUpdate
    /\ Len(pending) < MaxPending
    /\ \E u \in Users :
          pending' = Append(pending, [user |-> u, button |-> "start", data |-> <<"/">> \o C_start,
                                      read |-> find_one(users_collection, Str(u))])
    /\ UNCHANGED <<user_states, users_collection, out, aside>>

StartWrite ==
    /\ out = NoUpdate
    /\ UNCHANGED aside
    /\ \E i \in 1..Len(pending) :
        LET p == pending[i]
        IN  /\ p.button = "start"
            /\ \E steps \in {start_body(p.user, p.read)} : \E fail \in FailPoints(steps) :
              \E r \in {Handled(p.user, steps, fail)} :
                /\ user_states' = r.us
                /\ users_collection' = r.db
                /\ out' = [kind |-> "message", user |-> p.user, handler |-> "start",
                           branch |-> "none", button |-> "none", data |-> p.data,
                           sent |-> r.sent, api |-> r.api, looked |-> r.looked,
                           wrote |-> r.wrote, caught |-> r.caught, escaped |-> r.raised]
                /\ pending' = [j \in 1..(Len(pending) - 1) |->
                                  IF j < i THEN pending[j] ELSE pending[j + 1]]

NextStarts == StartRead \/ StartWrite \/ ToggleRead \/ ToggleWrite \/ Respond

SpecStarts == Init /\ [][NextStarts]_vars

(***************************************************************************)
(* The price prompt on its own: one user taps search_price and answers     *)
(* with any text of up to MaxTextLen characters of PriceAlphabet.          *)
(***************************************************************************)
\* u has a pending prompt
Awaiting(us, u) == u \in DOMAIN us /\ "waiting_for" \in DOMAIN us[u]

AwaitingKind(us, u) == IF Awaiting(us, u) THEN us[u]["waiting_for"] ELSE "idle"

\* digits (0 among them), the range dash, a letter, a blank and the
\* thousands separator
PriceAlphabet == {"0", "5", "-", "x", " ", ","}

PriceTexts == UNION {[1..k -> PriceAlphabet] : k \in 1..MaxTextLen}

PriceUser == CHOOSE u \in Users : \A v \in Users : u <= v

PricePrompt ==
    /\ out = NoUpdate
    /\ \E n \in ListingCounts :
        \E steps \in {handle_callbacks(PriceUser, D_search_price, n)} :
          \E fail \in FailPoints(steps) :
            Finish(PriceUser, "callback", "handle_callbacks", CallbackBranch(D_search_price),
                   "search_price", D_search_price, steps, fail)

PriceText ==
    /\ out = NoUpdate
    /\ AwaitingKind(user_states, PriceUser) = "price"
    /\ \E text \in PriceTexts, n \in ListingCounts :
        /\ MessageHandler(text) = "handle_text_messages"
        /\ \E steps \in {handle_text_messages(PriceUser, text, n)} :
             \E fail \in FailPoints(steps) :
               Finish(PriceUser, "message", "handle_text_messages", "none", "none", text,
                      steps, fail)

NextPrice == PricePrompt \/ PriceText \/ Respond

SpecPrice == Init /\ [][NextPrice]_vars

(***************************************************************************)
(* The list keyboard on its own: generated for any list of up to           *)
(* MaxListings listings and any page up to one past MaxPage.               *)
(***************************************************************************)
ListingLists == UNION {[1..k -> PropertyIds] : k \in 0..MaxListings}

GenerateKeyboard ==
    /\ keyboard = NoKeyboard
    /\ \E properties \in ListingLists, page \in 0..(MaxPage + 1) :
          keyboard' = [properties |-> properties, page |-> page,
                       markup |-> generate_properties_list_keyboard(properties, page)]
    /\ UNCHANGED <<user_states, users_collection, out, pending, fetched, response,
                   process, houses>>

NextKeyboard == GenerateKeyboard

SpecKeyboard == Init /\ [][NextKeyboard]_vars

(***************************************************************************)
(* The listing lookups on their own: every answer of the listings API.     *)
(***************************************************************************)
Statuses == {200, 404, 500}

Bodies ==
    {[kind |-> k, has_data |-> FALSE, data |-> None] : k \in {"malformed", "array", "object"}}
    \cup {[kind |-> "object", has_data |-> TRUE, data |-> d] :
             d \in {None} \cup {List(l) : l \in ListingLists}
                   \cup {Dict(<<id>>) : id \in PropertyIds}}

ApiResponses ==
    {[error |-> TRUE, status |-> 0, body |-> [kind |-> "malformed", has_data |-> FALSE, data |-> None]]}
    \cup {[error |-> FALSE, status |-> st, body |-> b] : st \in Statuses, b \in Bodies}

FetchProperties ==
    /\ fetched = NoFetch
    /\ \E resp \in ApiResponses :
          fetched' = [call |-> "fetch_properties", resp |-> resp,
                      result |-> fetch_properties_result(resp)]
    /\ UNCHANGED <<user_states, users_collection, out, pending, keyboard, response,
                   process, houses>>

FetchProperty ==
    /\ fetched = NoFetch
    /\ \E resp \in ApiResponses :
          fetched' = [call |-> "fetch_property", resp |-> resp,
                      result |-> fetch_property_result(resp)]
    /\ UNCHANGED <<user_states, users_collection, out, pending, keyboard, response,
                   process, houses>>

NextFetch == FetchProperties \/ FetchProperty

SpecFetch == Init /\ [][NextFetch]_vars

(***************************************************************************)
(* Paging through the results of one search. houses is the list of the     *)
(* listings the filter of the search matches, in the order of the server;  *)
(* the listings API answers a request with the limit records after the     *)
(* first skip of them. A listing is given by its id, the id of the i-th    *)
(* match is the number i - 1.                                              *)
(***************************************************************************)
\* GET /houses with the params limit and skip
houses_get(all, limit, skip) ==
    SubSeq(all, skip + 1, IF skip + limit < Len(all) THEN skip + limit ELSE Len(all))

\* the keyboard a search shows: the first request, page 0
search_keyboard(all) ==
    LET properties == houses_get(all, Limit, 0)
    IN  [properties |-> properties, page |-> 0,
         markup |-> generate_properties_list_keyboard(properties, 0)]

\* the keyboard page_<n> shows: the request page_branch makes, and the
\* list it returns handed on with the page number
page_keyboard(all, data) ==
    LET filters == page_branch(1, data, 1)[1].arg
        properties == houses_get(all, filters["limit"], filters["skip"])
        page == PyInt(Replace(data, P_page)).val
    IN  [properties |-> properties, page |-> page,
         markup |-> generate_properties_list_keyboard(properties, page)]

\* a search that matches one listing or more shows its first page
SearchResults ==
    /\ keyboard = NoKeyboard
    /\ houses = <<>>
    /\ \E total \in 1..MaxMatches :
          /\ houses' = [i \in 1..total |-> Str(i - 1)]
          /\ keyboard' = search_keyboard(houses')
    /\ UNCHANGED <<user_states, users_collection, out, pending, fetched, response, process>>

\* the Previous or the Next button of the keyboard on display is tapped;
\* the message is edited when the request returns any listing
PressPage ==
    /\ houses # <<>>
    /\ \E button \in {keyboard.markup.previous, keyboard.markup.next} :
          /\ Len(button) = 1
          /\ \E shown \in {page_keyboard(houses, button[1])} :
                keyboard' = IF Len(shown.properties) > 0 THEN shown ELSE keyboard
    /\ UNCHANGED <<user_states, users_collection, out, pending, fetched, response, process,
                   houses>>

NextPages == SearchResults \/ PressPage

SpecPages == Init /\ [][NextPages]_vars

(***************************************************************************)
(* The webhook on its own: every request to either entry point.            *)
(***************************************************************************)
Methods == {"GET", "POST", "PUT", "DELETE"}

JsonValues == {"malformed", "array", "object"}

\* handler called by the serverless platform, outside any event loop, with
\* the body as a str or as a parsed value
HandlerRequest ==
    /\ response = NoRequest
    /\ \E method \in Methods, form \in {"str", "dict"}, json \in JsonValues,
          bot_loaded \in BOOLEAN, completes \in BOOLEAN :
          /\ form = "dict" => json # "malformed"
          /\ response' = [entry |-> "handler", method |-> method, form |-> form, json |-> json,
                           bot_loaded |-> bot_loaded, completes |-> completes,
                           reply |-> handler(method, form, json, FALSE, bot_loaded, completes)]
    /\ UNCHANGED <<user_states, users_collection, out, pending, keyboard, fetched,
                   process, houses>>

\* a request to /api/telegram of the FastAPI server
ServerRequest ==
    /\ response = NoRequest
    /\ \E method \in Methods, json \in JsonValues, bot_loaded \in BOOLEAN, completes \in BOOLEAN :
          response' = [entry |-> "server", method |-> method, form |-> "str", json |-> json,
                       bot_loaded |-> bot_loaded, completes |-> completes,
                       reply |-> api_telegram(method, json, bot_loaded, completes)]
    /\ UNCHANGED <<user_states, users_collection, out, pending, keyboard, fetched,
                   process, houses>>

NextWebhook == HandlerRequest \/ ServerRequest

SpecWebhook == Init /\ [][NextWebhook]_vars

(***************************************************************************)
(* The server process on its own: it starts, and handles up to MaxUpdates  *)
(* POSTs.                                                                  *)
(***************************************************************************)
DbOutcomes == {"up", "down", "no index"}

UpdateKinds == {"start", "callback", "text"}

Adapters == {"bot.handler", "api.telegram", "server"}

\* the process starts: bot.py is imported, by the platform itself for
\* class handler (no handler exists when the import fails) and inside the
\* import guard of api/telegram.py otherwise
Startup ==
    /\ process = NoProcess
    /\ \E adapter \in Adapters, BOT_TOKEN \in BOOLEAN, MONGO_URI \in BOOLEAN,
          commands_ok \in BOOLEAN :
          \E p \in {[NoProcess EXCEPT !.adapter = adapter, !.BOT_TOKEN = BOT_TOKEN,
                                      !.MONGO_URI = MONGO_URI,
                                      !.loaded = ~import_bot(BOT_TOKEN, MONGO_URI).raised]} :
              process' = IF adapter = "server" THEN startup_event(p, commands_ok) ELSE p
    /\ UNCHANGED <<user_states, users_collection, out, pending, keyboard, fetched, response,
                   houses>>

\* a POST to class handler of bot.py
HandlerPost ==
    /\ process.adapter = "bot.handler"
    /\ process.loaded
    /\ process.updates < MaxUpdates
    /\ \E db \in DbOutcomes, kind \in UpdateKinds, de_json \in BOOLEAN :
          process' = do_POST(process, db, kind, de_json)
    /\ UNCHANGED <<user_states, users_collection, out, pending, keyboard, fetched, response,
                   houses>>

\* a POST to handler of api/telegram.py, called outside any event loop
TelegramPost ==
    /\ process.adapter = "api.telegram"
    /\ process.updates < MaxUpdates
    /\ \E db \in DbOutcomes, commands_ok \in BOOLEAN, kind \in UpdateKinds,
          de_json \in BOOLEAN :
          process' = telegram_POST(process, FALSE, db, commands_ok, kind, de_json)
    /\ UNCHANGED <<user_states, users_collection, out, pending, keyboard, fetched, response,
                   houses>>

\* a POST to /api/telegram of server.py, whose webhook coroutine calls
\* handler inside the running event loop
ServerPost ==
    /\ process.adapter = "server"
    /\ process.updates < MaxUpdates
    /\ \E db \in DbOutcomes, commands_ok \in BOOLEAN, kind \in UpdateKinds,
          de_json \in BOOLEAN :
          process' = telegram_POST(process, TRUE, db, commands_ok, kind, de_json)
    /\ UNCHANGED <<user_states, users_collection, out, pending, keyboard, fetched, response,
                   houses>>

NextProcess == Startup \/ HandlerPost \/ TelegramPost \/ ServerPost

SpecProcess == Init /\ [][NextProcess]_vars

(***************************************************************************)
(* Properties of the session table and the dispatch.                       *)
(***************************************************************************)
\* the keys of a last-search-filter record
FilterKeys == {"search_type", "location", "type", "search", "minPrice", "maxPrice", "page"}

\* the entries of the users other than u are the same in us and vs
OthersSame(us, vs, u) ==
    \A v \in Users \ {u} :
        /\ v \in DOMAIN us <=> v \in DOMAIN vs
        /\ v \in DOMAIN us => us[v] = vs[v]

\* C1: a text message handled for a user with a waiting_for marker leaves
\* that user without the marker, whatever the search or the replies did.
C1_MarkerClearedByText ==
    [][(/\ out = NoUpdate
        /\ out'.handler = "handle_text_messages"
        /\ Awaiting(user_states, out'.user))
       => ~Awaiting(user_states', out'.user)]_vars

\* what the handler did with a text taken as input of the given kind
ConsumedAs(o, kind) ==
    \/ o.caught # <<>>
    \/ /\ kind = "location"
       /\ Len(o.api) = 1 /\ DOMAIN o.api[1] = {"location", "limit"}
    \/ /\ kind = "price"
       /\ \/ o.sent = <<"reply_invalid_price_format">> /\ o.api = <<>>
          \/ Len(o.api) = 1 /\ "maxPrice" \in DOMAIN o.api[1]
    \/ /\ kind = "text_search"
       /\ Len(o.api) = 1 /\ DOMAIN o.api[1] = {"search", "limit"}

PromptKind(button) ==
    CASE button = "search_location" -> "location"
      [] button = "search_price" -> "price"
      [] button = "search_text" -> "text_search"
      [] OTHER -> "idle"

\* C2: IDLE -> AWAITING_INPUT(kind) -> IDLE. A prompt callback that shows
\* its prompt leaves the user awaiting its own kind; the next text of that
\* user is taken as input of the pending kind, and leaves the user idle.
C2_SessionFlow ==
    [][out = NoUpdate =>
        /\ (out'.button \in {"search_location", "search_price", "search_text"}
            /\ out'.caught = <<>>)
           => AwaitingKind(user_states', out'.user) = PromptKind(out'.button)
        /\ (out'.handler = "handle_text_messages" /\ Awaiting(user_states, out'.user))
           => /\ ConsumedAs(out', AwaitingKind(user_states, out'.user))
              /\ ~Awaiting(user_states', out'.user)]_vars

IntendedHandler(text) ==
    CASE text = <<"/">> \o C_start -> "start"
      [] text = <<"/">> \o C_help -> "help_command"
      [] text = <<"/">> \o C_terms -> "terms_command"
      [] text = <<"/">> \o C_agreement -> "agreement_command"
      [] text = <<"/">> \o C_contact -> "contact_command"
      [] OTHER -> "handle_text_messages"

\* C4: every update runs the one handler it is meant for: a command runs
\* its command handler and not the free-text fallback, a button runs the
\* branch of handle_callbacks written for it (no exact callback string is
\* taken by a prefix branch).
C4_OneHandlerPerUpdate ==
    /\ out.kind = "message" => out.handler = IntendedHandler(out.data)
    /\ out.kind = "callback" => out.handler = "handle_callbacks" /\ out.branch = out.button

\* /start has been handled by start for a user with a pending prompt
C4_Witness ==
    /\ out.kind = "message" /\ out.handler = "start"
    /\ Awaiting(user_states, out.user)

\* C5 as stated: area_, type_, page_, fav_add_ and fav_remove_ leave the
\* waiting_for marker of the user as it was.
C5_MarkerKeptByButtons ==
    [][(/\ out = NoUpdate
        /\ out'.button \in {"area_", "type_", "page_", "fav_add_", "fav_remove_"})
       => AwaitingKind(user_states', out'.user) = AwaitingKind(user_states, out'.user)]_vars

\* C5 amended: page_, fav_add_ and fav_remove_ leave the session table as it
\* was; area_ and type_ replace the user's whole entry by the last-filter
\* record, which removes a pending waiting_for marker, and touch no other
\* entry.
C5_ButtonsAndMarker ==
    [][out = NoUpdate =>
        /\ out'.button \in {"page_", "fav_add_", "fav_remove_"}
           => user_states' = user_states
        /\ out'.button \in {"area_", "type_"}
           => /\ out'.user \in DOMAIN user_states'
              /\ "waiting_for" \notin DOMAIN user_states'[out'.user]
              /\ {"search_type", "page"} \subseteq DOMAIN user_states'[out'.user]
              /\ OthersSame(user_states, user_states', out'.user)]_vars

\* a page button has been handled for a user with a pending prompt
C5_Witness ==
    /\ out.button = "page_" /\ out.caught = <<>>
    /\ Awaiting(user_states, out.user)

\* C6: no session entry holds a waiting_for marker together with any part
\* of a last-search-filter record.
C6_MarkerOrFilter ==
    \A u \in DOMAIN user_states :
        "waiting_for" \in DOMAIN user_states[u] => DOMAIN user_states[u] \cap FilterKeys = {}

\* a user with a last filter has chosen a prompt while another user's text
\* has turned a prompt into a last filter
C6_Witness ==
    /\ out.button \in {"search_location", "search_price", "search_text"}
    /\ Awaiting(user_states, out.user)
    /\ \E v \in DOMAIN user_states : "search_type" \in DOMAIN user_states[v]

\* C7: a user id that has a session entry keeps one: no update removes a
\* key of user_states.
C7_EntriesNeverEvicted ==
    [][DOMAIN user_states \subseteq DOMAIN user_states']_vars

\* a text has been consumed and its sender's entry, cleared of the marker,
\* is still there
C7_Witness ==
    /\ out.handler = "handle_text_messages"
    /\ out.sent # <<>>
    /\ out.user \in DOMAIN user_states
    /\ DOMAIN user_states[out.user] = {}


(***************************************************************************)
(* Properties of the favorites toggles.                                    *)
(***************************************************************************)
\* the favorites stored for u; none for a user without a record
StoredFavorites(db, u) ==
    IF Str(u) \in DOMAIN db /\ "favorites" \in DOMAIN db[Str(u)]
    THEN db[Str(u)]["favorites"] ELSE <<>>

Occurrences(f, id) == Cardinality({i \in 1..Len(f) : f[i] = id})

\* the listing id a toggle button carries
ToggledId(o) ==
    IF o.button = "fav_add_" THEN SubSeq(o.data, Len(P_fav_add) + 1, Len(o.data))
    ELSE SubSeq(o.data, Len(P_fav_remove) + 1, Len(o.data))

\* C8: once fav_add_<id> has been handled for a user (once, or again), the
\* favorites stored for that user hold id exactly once.
C8_AddStoresIdOnce ==
    out.button = "fav_add_"
    => Occurrences(StoredFavorites(users_collection, out.user), ToggledId(out)) = 1

\* C9 as stated: fav_remove_<id> for a user whose stored favorites do not
\* hold id issues no write, leaves the store as it is and does not take the
\* error path ("Error removing favorite").
C9_RemoveAbsentIsNoOp ==
    [][(/\ out = NoUpdate
        /\ out'.button = "fav_remove_"
        /\ Occurrences(StoredFavorites(users_collection, out'.user), ToggledId(out')) = 0)
       => /\ ~out'.wrote
          /\ users_collection' = users_collection
          /\ ~In("fav_remove", out'.caught)]_vars

\* C9 amended: for a user who has a record whose favorites do not hold id,
\* fav_remove_<id> issues no write and leaves the store as it is, and it
\* takes the error path only when the call that re-renders the keyboard
\* raises, after the listing has been looked up.
C9_RemoveAbsentWithRecord ==
    [][(/\ out = NoUpdate
        /\ out'.button = "fav_remove_"
        /\ Str(out'.user) \in DOMAIN users_collection
        /\ Occurrences(StoredFavorites(users_collection, out'.user), ToggledId(out')) = 0)
       => /\ ~out'.wrote
          /\ users_collection' = users_collection
          /\ In("fav_remove", out'.caught)
             => /\ out'.looked = <<ToggledId(out')>>
                /\ ~In("edit_markup_add_button", out'.sent)]_vars

\* fav_remove_ of an id that is not stored has run to its end for a user
\* with a record
C9_Witness ==
    /\ out.button = "fav_remove_"
    /\ Str(out.user) \in DOMAIN users_collection
    /\ Occurrences(StoredFavorites(users_collection, out.user), ToggledId(out)) = 0
    /\ out.caught = <<>>
    /\ out.sent = <<"edit_markup_add_button", "answer">>

\* C10: no stored favorites list holds a listing id twice, whatever toggles
\* have run and however they overlapped.
C10_NoDuplicateFavorites ==
    \A id \in DOMAIN users_collection :
        "favorites" \in DOMAIN users_collection[id]
        => \A i, j \in 1..Len(users_collection[id]["favorites"]) :
              i # j => users_collection[id]["favorites"][i] # users_collection[id]["favorites"][j]

\* fav_add_ of an id that its user already stores has finished while
\* another toggle of the same user, read before it, is still in flight
C10_Witness ==
    /\ out.button = "fav_add_"
    /\ Occurrences(StoredFavorites(users_collection, out.user), ToggledId(out)) = 1
    /\ \E i \in 1..Len(pending) : pending[i].user = out.user

\* pending without its i-th toggle
WithoutToggle(i) ==
    [j \in 1..(Len(pending) - 1) |-> IF j < i THEN pending[j] ELSE pending[j + 1]]

\* C11: a toggle writes the list it computed from its own read, whatever
\* the store holds by then: fav_add_<id> resumed after find_one returned a
\* record without id leaves the stored favorites at the list it read with
\* id appended, so that an id another toggle stored in between is lost.
C11_ToggleWritesFromItsRead ==
    [][\A i \in 1..Len(pending) :
          (/\ out = NoUpdate
           /\ out' # NoUpdate
           /\ pending' = WithoutToggle(i)
           /\ pending[i].button = "fav_add_"
           /\ ~In(Replace(pending[i].data, P_fav_add), FavoritesOf(pending[i].read)))
          => StoredFavorites(users_collection', pending[i].user)
             = Append(FavoritesOf(pending[i].read), Replace(pending[i].data, P_fav_add))]_vars


(***************************************************************************)
(* Properties of /start and the user records.                              *)
(***************************************************************************)
\* C12: once /start has been handled for a user who had no record, the
\* store holds a record of that user, with favorites = [] and created_at
\* equal to updated_at.
C12_StartCreatesRecord ==
    [][(/\ out = NoUpdate
        /\ out'.handler = "start"
        /\ Str(out'.user) \notin DOMAIN users_collection)
       => /\ Str(out'.user) \in DOMAIN users_collection'
          /\ {"favorites", "created_at", "updated_at"}
                \subseteq DOMAIN users_collection'[Str(out'.user)]
          /\ users_collection'[Str(out'.user)]["favorites"] = <<>>
          /\ users_collection'[Str(out'.user)]["created_at"]
             = users_collection'[Str(out'.user)]["updated_at"]]_vars

\* C13: /start for a user who has a record issues no write and leaves the
\* store as it is; a record is never removed, and is stored under the id it
\* carries, whatever /start commands and toggles overlap.
C13_StartIsIdempotent ==
    [][/\ (/\ out = NoUpdate
           /\ out'.handler = "start"
           /\ Str(out'.user) \in DOMAIN users_collection)
          => (~out'.wrote /\ users_collection' = users_collection)
       /\ \A id \in DOMAIN users_collection :
             /\ id \in DOMAIN users_collection'
             /\ users_collection'[id]["_id"] = id]_vars

\* /start has been answered for a user with a record, while another /start
\* of the same user is still in flight
C13_Witness ==
    /\ out.handler = "start"
    /\ In("reply_welcome", out.sent)
    /\ Str(out.user) \in DOMAIN users_collection
    /\ \E i \in 1..Len(pending) : pending[i].user = out.user /\ pending[i].button = "start"


(***************************************************************************)
(* Properties of the price search.                                         *)
(***************************************************************************)
\* s is a number as the prompt asks for it: decimal digits only
IsNumber(s) == Len(s) > 0 /\ \A i \in 1..Len(s) : s[i] \in DigitSet

\* text is <min>-<max> with the dash at position i and a number on each side
IsRangeAt(text, i) ==
    /\ text[i] = "-"
    /\ IsNumber(SubSeq(text, 1, i - 1))
    /\ IsNumber(SubSeq(text, i + 1, Len(text)))

\* the filters a price text of the prompted form stands for
PriceFilters(text) ==
    IF IsNumber(text) THEN "maxPrice" :> DigitsValue(text)
    ELSE LET i == CHOOSE j \in 1..Len(text) : IsRangeAt(text, j)
         IN  ("minPrice" :> DigitsValue(SubSeq(text, 1, i - 1)))
             @@ ("maxPrice" :> DigitsValue(SubSeq(text, i + 1, Len(text))))

IsPriceForm(text) == IsNumber(text) \/ \E i \in 1..Len(text) : IsRangeAt(text, i)

\* a price text has been handled for a user awaiting a price, and no reply
\* raised
PriceAnswered ==
    /\ out = NoUpdate
    /\ out'.handler = "handle_text_messages"
    /\ AwaitingKind(user_states, out'.user) = "price"
    /\ out'.caught = <<>>

\* C14 as stated: <min>-<max> and <number> are searched with exactly the
\* filters they stand for plus limit 20, and those filters are the last
\* filter of the session.
C14_PriceFiltersSent ==
    [][(PriceAnswered /\ IsPriceForm(out'.data))
       => /\ out'.api = <<PriceFilters(out'.data) @@ ("limit" :> Limit)>>
          /\ user_states'[out'.user] = LastFilter("price", PriceFilters(out'.data))]_vars

\* C14 amended: the last filter holds the filters the text stands for; the
\* one listings request carries limit 20 and those of the filters that are
\* not 0 (a bound of 0 is left out of the request).
C14_PriceFiltersNonZeroSent ==
    [][(PriceAnswered /\ IsPriceForm(out'.data))
       => LET f == PriceFilters(out'.data)
          IN  /\ out'.api = <<[k \in {x \in DOMAIN f : f[x] # 0} \cup {"limit"} |->
                                  IF k = "limit" THEN Limit ELSE f[k]]>>
              /\ user_states'[out'.user] = LastFilter("price", f)]_vars

\* a range with a lower bound of 0 has been searched and its results shown
C14_Witness ==
    /\ out.handler = "handle_text_messages"
    /\ out.data = <<"0", "-", "5">>
    /\ out.sent = <<"reply_searching", "reply_results">>
    /\ out.user \in DOMAIN user_states
    /\ user_states[out.user] = LastFilter("price", ("minPrice" :> 0) @@ ("maxPrice" :> 5))

\* text without blanks and thousands separators
Squeezed(text) == Replace(Replace(text, <<" ">>), <<",">>)

\* C15: a text that is no number and no range of two numbers, however it
\* is spaced and separated, gets the format-error reply, makes no listings
\* request and writes no last filter.
C15_NonNumericRejected ==
    [][(PriceAnswered /\ ~IsPriceForm(Squeezed(out'.data)))
       => /\ out'.sent = <<"reply_invalid_price_format">>
          /\ out'.api = <<>>
          /\ DOMAIN user_states'[out'.user] \cap FilterKeys = {}]_vars


(***************************************************************************)
(* Properties of the search results.                                       *)
(***************************************************************************)
\* the replies that show listings, and those that say there are none
ResultRenders == {"reply_results", "edit_results", "edit_results_page"}

EmptyRenders == {"reply_no_properties", "edit_no_properties"}

\* the update was a search that reached the listings API, and none of its
\* replies raised
Searched(o) ==
    /\ \/ o.button \in {"area_", "type_", "page_"}
       \/ o.handler = "handle_text_messages"
    /\ o.api # <<>>
    /\ o.caught = <<>> /\ ~o.escaped

\* C16: a search for which the listings API gave no listings (so that no
\* result list was shown) has shown the "no properties found" message.
C16_EmptyResultRendered ==
    (Searched(out) /\ \A i \in 1..Len(out.sent) : out.sent[i] \notin ResultRenders)
    => \E i \in 1..Len(out.sent) : out.sent[i] \in EmptyRenders

\* a text has been handled for a user prompted for a location, and no
\* reply raised
LocationAnswered ==
    /\ out = NoUpdate
    /\ out'.handler = "handle_text_messages"
    /\ AwaitingKind(user_states, out'.user) = "location"
    /\ out'.caught = <<>>

C18_KeyboardPage ==
    keyboard # NoKeyboard
    => LET properties == keyboard.properties
           page == keyboard.page
           m == keyboard.markup
           positions == {i \in 1..Len(properties) : 5 * page < i /\ i <= 5 * page + 5}
       IN  /\ Len(m.listings) <= 5
           /\ Len(m.listings) = Cardinality(positions)
           /\ \A j \in 1..Len(m.listings) : m.listings[j] = P_prop \o properties[5 * page + j]
           /\ m.next # <<>> <=> Len(properties) > 5 * page + 5
           /\ m.next # <<>> => m.next = <<P_page \o Str(page + 1)>>
           /\ m.previous # <<>> <=> page > 0
           /\ m.previous # <<>> => m.previous = <<P_page \o Str(page - 1)>>

\* the second page of a list of more than 5 listings: its rest, a Previous
\* button and no Next button
C18_Witness ==
    /\ keyboard.page = 1
    /\ Len(keyboard.properties) > 5
    /\ Len(keyboard.markup.listings) = Len(keyboard.properties) - 5
    /\ keyboard.markup.previous # <<>>
    /\ keyboard.markup.next = <<>>


(***************************************************************************)
(* Properties of the listing lookups and of the webhook.                   *)
(***************************************************************************)
\* the request to the listings API failed: transport error, a status other
\* than 200, or a body that is no JSON
LookupFailed(resp) == resp.error \/ resp.status # 200 \/ resp.body.kind = "malformed"

\* C19: a lookup never ends with an exception, and a failed request gives
\* [] from fetch_properties and None from fetch_property.
C19_LookupsNeverRaise ==
    fetched.call # "none"
    => /\ ~fetched.result.raised
       /\ LookupFailed(fetched.resp)
          => fetched.result.value
             = (IF fetched.call = "fetch_properties" THEN List(<<>>) ELSE None)

\* fetch_property has met a 200 answer whose body is no JSON, and returned
\* None
C19_Witness ==
    /\ fetched.call = "fetch_property"
    /\ ~fetched.resp.error /\ fetched.resp.status = 200
    /\ fetched.resp.body.kind = "malformed"
    /\ fetched.result = Returned(None)

\* C20: at both entry points GET gives 200 and the status page; POST gives
\* 200 "OK" for a well-formed update whose processing completes, 400 for
\* malformed JSON and 500 when the processing fails; any other method
\* gives 405. (Stated for a bot module that has loaded where the body is
\* malformed: what comes first when it has not is left open.)
C20_WebhookStatus ==
    response.entry # "none"
    => /\ response.method = "GET"
          => response.reply = Reply(200, "html")
       /\ (response.method = "POST" /\ response.json = "object"
           /\ response.bot_loaded /\ response.completes)
          => response.reply = Reply(200, "OK")
       /\ (response.method = "POST" /\ response.json = "malformed" /\ response.bot_loaded)
          => response.reply.statusCode = 400
       /\ (response.method = "POST" /\ response.json = "object"
           /\ ~(response.bot_loaded /\ response.completes))
          => response.reply.statusCode = 500
       /\ response.method \notin {"GET", "POST"}
          => response.reply.statusCode = 405

(***************************************************************************)
(* Properties of the server process.                                       *)
(***************************************************************************)
\* this step is the handling of one POST
Posted == process'.updates = process.updates + 1

\* C21: in a process whose bot module has loaded, the first POST calls
\* init_db and set_my_commands, and a POST that finds the database
\* initialized and the command list registered calls neither again.
\* (Stated for the two deployments in which process_update runs; the
\* FastAPI server never gets that far.)
C21_LazyInitOnce ==
    [][(Posted /\ process.loaded /\ process.adapter # "server")
       => /\ process.updates = 0
             => (process'.post.init_db >= 1 /\ process'.post.set_my_commands >= 1)
          /\ (process.initialized /\ process.registered)
             => (process'.post.init_db = 0 /\ process'.post.set_my_commands = 0)]_vars

\* C22: while BOT_TOKEN or MONGO_URI is missing the bot module is not
\* loaded, the database is never initialized, no update is handed to the
\* dispatcher, and every POST is answered 500.
C22_ConfigurationIsFatal ==
    (process.adapter # "none" /\ ~(process.BOT_TOKEN /\ process.MONGO_URI))
    => /\ ~process.loaded
       /\ ~process.connected
       /\ ~process.post.dispatched
       /\ process.post.init_db = 0
       /\ process.updates > 0 => process.post.statusCode = 500

\* a POST has been handled by a process that has the token and lacks the
\* connection string
C22_Witness ==
    /\ process.BOT_TOKEN
    /\ ~process.MONGO_URI
    /\ process.updates > 0
    /\ process.post.statusCode = 500

\* C30: a POST during which init_db fails and leaves users_collection None
\* does not hand the update to the dispatcher and is answered 500; so a
\* callback or text handler only ever runs with users_collection set.
C30_NoDispatchWithoutDatabase ==
    /\ (process.post.init_db >= 1 /\ ~process.connected)
       => (~process.post.dispatched /\ process.post.statusCode = 500)
    /\ (process.post.dispatched /\ process.post.kind \in {"callback", "text"})
       => process.post.connected

(***************************************************************************)
(* Properties of the favorites toggles and of the error handling of the    *)
(* handlers.                                                               *)
(***************************************************************************)
\* C23: fav_remove_<id> for a user without a record in the store issues no
\* write and leaves the store as it is (no record is created), takes the
\* error path of the branch, whose first call to the platform is the
\* "Error removing favorite" answer, and neither looks the listing up nor
\* re-renders the keyboard.
C23_RemoveWithoutRecord ==
    [][(/\ out = NoUpdate
        /\ out'.button = "fav_remove_"
        /\ Str(out'.user) \notin DOMAIN users_collection)
       => /\ ~out'.wrote
          /\ users_collection' = users_collection
          /\ In("fav_remove", out'.caught)
          /\ \/ (Len(out'.sent) > 0 /\ out'.sent[1] = "answer_error_removing")
             \/ out'.caught = <<"fav_remove", "handle_callbacks">>
          /\ out'.looked = <<>>
          /\ ~In("edit_markup_add_button", out'.sent)]_vars

\* fav_remove_ has run to its end for a user without a record, every call
\* to the platform returning
C23_Witness ==
    /\ out.button = "fav_remove_"
    /\ Str(out.user) \notin DOMAIN users_collection
    /\ out.caught = <<"fav_remove">>
    /\ out.sent = <<"answer_error_removing", "answer">>

\* C24: when fav_add_<id> or fav_remove_<id> re-renders the keyboard of the
\* listing, the keyboard carries the remove button iff id is in the stored
\* favorites of the user at that moment, and the add button iff it is not;
\* and "Added to favorites" / "Removed from favorites" is answered only by
\* an update that has issued its write.
C24_KeyboardReflectsStore ==
    [][(out = NoUpdate /\ out'.button \in {"fav_add_", "fav_remove_"})
       => /\ In("edit_markup_remove_button", out'.sent)
             => In(ToggledId(out'), StoredFavorites(users_collection', out'.user))
          /\ In("edit_markup_add_button", out'.sent)
             => ~In(ToggledId(out'), StoredFavorites(users_collection', out'.user))
          /\ (In("answer_added", out'.sent) \/ In("answer_removed", out'.sent))
             => out'.wrote]_vars

\* fav_add_ has re-rendered the keyboard of a listing
C24_Witness ==
    /\ out.button = "fav_add_"
    /\ In("edit_markup_remove_button", out.sent)
    /\ In(ToggledId(out), StoredFavorites(users_collection, out.user))

EntryOf(us, u) == IF u \in DOMAIN us THEN us[u] ELSE EmptyDict

\* the number a page_<n> button carries
PageOf(o) == DigitsValue(SubSeq(o.data, Len(P_page) + 1, Len(o.data)))

\* C26: page_<n> makes one listings request, the one fetch_properties
\* builds from the session entry of the user without the keys page and
\* waiting_for, with limit = 20 and skip = 5 * n; and it leaves user_states
\* as it is.
C26_PageRequeries ==
    [][(out = NoUpdate /\ out'.button = "page_")
       => LET entry == EntryOf(user_states, out'.user)
              kept == [k \in DOMAIN entry \ {"page", "waiting_for"} |-> entry[k]]
          IN  /\ out'.api = <<fetch_properties(("limit" :> 20) @@ ("skip" :> 5 * PageOf(out'))
                                               @@ kept)>>
              /\ user_states' = user_states]_vars

\* page_1 has been handled for a user whose last search was by location
C26_Witness ==
    /\ out.button = "page_"
    /\ PageOf(out) = 1
    /\ Len(out.api) = 1
    /\ "location" \in DOMAIN out.api[1]
    /\ out.api[1]["skip"] = 5
    /\ out.user \in DOMAIN user_states
    /\ "page" \in DOMAIN user_states[out.user]
    /\ user_states[out.user]["page"] = 0

\* the ids of the listings a keyboard shows
Displayed(k) ==
    [i \in 1..Len(k.markup.listings) |->
        DigitsValue(SubSeq(k.markup.listings[i], Len(P_prop) + 1, Len(k.markup.listings[i])))]

\* C27: the page p on display shows the matches number 5p .. 5p+4 of the
\* search, as far as there are any, in their order.
C27_PagesCoverResults ==
    houses # <<>>
    => LET lo == PerPage * keyboard.page
           hi == IF lo + PerPage < Len(houses) THEN lo + PerPage ELSE Len(houses)
       IN  Displayed(keyboard) = [i \in 1..(hi - lo) |-> lo + i - 1]

(***************************************************************************)
(* Frame properties of the session table.                                  *)
(***************************************************************************)
\* C28: an update of user u, whatever handler it goes to, leaves the
\* session entry of every other user as it is (present or not, with its
\* marker and its last filter).
C28_SessionIsolation ==
    [][(out = NoUpdate /\ out' # NoUpdate)
       => OthersSame(user_states, user_states', out'.user)]_vars

\* a text of one user has been consumed as search input while the other
\* user has a prompt pending
C28_Witness ==
    /\ out.handler = "handle_text_messages"
    /\ Len(out.api) = 1
    /\ \E v \in Users \ {out.user} :
          /\ v \in DOMAIN user_states
          /\ "waiting_for" \in DOMAIN user_states[v]

\* the handlers of the commands
CommandHandlers ==
    {"start", "help_command", "terms_command", "agreement_command", "contact_command"}

\* the buttons that navigate: menus, favorites, a listing and its agent
NavigationButtons ==
    {"back_to_menu", "back_to_search", "search_properties", "search_type", "popular_areas",
     "my_favorites", "property_alerts", "help", "prop_", "contact_"}

\* C29: for a user with a pending prompt, a command or a navigation button
\* leaves the session table as it is, whether or not its handler raises;
\* and a text of a user with a pending prompt is taken as input of the
\* pending kind.
C29_PromptSurvivesNavigation ==
    [][(out = NoUpdate /\ out' # NoUpdate /\ Awaiting(user_states, out'.user))
       => /\ (out'.handler \in CommandHandlers \/ out'.button \in NavigationButtons)
             => user_states' = user_states
          /\ out'.handler = "handle_text_messages"
             => ConsumedAs(out', AwaitingKind(user_states, out'.user))]_vars

\* /terms has been handled, and has raised, for a user whose price prompt
\* is still pending
C29_Witness ==
    /\ out.handler = "terms_command"
    /\ out.escaped
    /\ AwaitingKind(user_states, out.user) = "price"

====
